---- MODULE Spec2Model ----
(***************************************************************************)
(* Model of receiver/githubactionseventreceiver/trace_receiver.go: the     *)
(* GitHub Actions webhook receiver that authenticates a webhook request,   *)
(* decodes a workflow_job / workflow_run event and converts it to a trace. *)
(*                                                                         *)
(* Idealisations, stated once:                                             *)
(*  - SHA-256 / HMAC are collision free: a digest is represented by the    *)
(*    text it was computed from, so two digests are equal exactly when     *)
(*    their inputs are equal.  The inputs themselves are built as the code *)
(*    builds them (fmt.Sprintf concatenation, header slicing).             *)
(*  - crypto/rand values are drawn from a small pool of values that are    *)
(*    never equal to a digest-derived identifier.                          *)
(***************************************************************************)
EXTENDS Integers, Sequences, FiniteSets, TLC

VARIABLES
    config,     \* gaer.config: Secret, Path, service name settings
    pc,         \* position of the request being served by ServeHTTP
    req,        \* the request being served (headers, path, body)
    td,         \* the traces UnmarshalTraces returned for the request
    resp,       \* the response written for the request
    calls,      \* ConsumeTraces calls made for the request being served
    sink,       \* what nextConsumer was handed, in order
    served,     \* number of requests that have arrived
    inbox,      \* decoded events awaiting conversion (conversion specs)
    delivered   \* conversions done: event, resulting traces, error

vars == <<config, pc, req, td, resp, calls, sink, served, inbox, delivered>>

serverVars == <<config, pc, req, td, resp, calls, sink, served>>

convVars == <<inbox, delivered>>

----------------------------------------------------------------------------
(* Bounds of the model.                                                    *)

MaxSteps == 2

MaxRequests == 2

MaxDeliveries == 3

----------------------------------------------------------------------------
(* Identifiers (pcommon.TraceID, pcommon.SpanID).                          *)

\* sha256.Sum256 followed by hex.EncodeToString: 64 hex characters that
\* stand for the digest of `input`.
Sha256Hex(input) == [digest |-> input, len |-> 64]

\* hex.Decode(dst, hexString[lo:hi]): the bytes of a slice of a hex string.
HexDecodeSlice(h, lo, hi) ==
    [src |-> "sha256", digest |-> h.digest, lo |-> lo, hi |-> hi]

\* The zero value of pcommon.SpanID (a span without parent).
EmptySpanID == [src |-> "zero", digest |-> "", lo |-> 0, hi |-> 0]

\* Values crypto/rand may return in the model.
RandomSpanIDs ==
    {[src |-> "rand", digest |-> r, lo |-> 0, hi |-> 16] : r \in {"r1", "r2"}}

generateTraceID(runID, runAttempt) ==
    LET input == ToString(runID) \o ToString(runAttempt) \o "t"
    IN  HexDecodeSlice(Sha256Hex(input), 0, 32)

generateJobSpanID(runID, runAttempt, job) ==
    LET input == ToString(runID) \o ToString(runAttempt) \o job
    IN  HexDecodeSlice(Sha256Hex(input), 16, 32)

generateParentSpanID(runID, runAttempt) ==
    LET input == ToString(runID) \o ToString(runAttempt) \o "s"
    IN  HexDecodeSlice(Sha256Hex(input), 16, 32)

----------------------------------------------------------------------------
(* Time stamps.  A time.Time is modelled by its offset from the Unix epoch *)
(* (negative before 1970); pcommon.NewTimestampFromTime converts it with   *)
(* uint64(t.UnixNano()), which wraps a negative offset around.  The        *)
(* wrap-around modulus 2^64 is scaled down to 2^TimestampBits.             *)

TimestampBits == 16

NewTimestampFromTime(t) == t % (2 ^ TimestampBits)

setSpanTimes(span, start, end) ==
    [span EXCEPT !.StartTimestamp = NewTimestampFromTime(start),
                 !.EndTimestamp = NewTimestampFromTime(end)]

----------------------------------------------------------------------------
(* Service name (generateServiceName).                                     *)

UpperCase == "ABCDEFGHIJKLMNOPQRSTUVWXYZ"

LowerCase == "abcdefghijklmnopqrstuvwxyz"

CharAt(s, i) == SubSeq(s, i, i)

\* strings.ReplaceAll(s, old, new) for a one-character `old`.
RECURSIVE ReplaceAll(_, _, _)
ReplaceAll(s, old, new) ==
    IF Len(s) = 0 THEN ""
    ELSE (IF CharAt(s, 1) = old THEN new ELSE CharAt(s, 1))
         \o ReplaceAll(SubSeq(s, 2, Len(s)), old, new)

\* The lower-case letter of every upper-case letter.
LowerOf ==
    [c \in {CharAt(UpperCase, i) : i \in 1..Len(UpperCase)} |->
        CharAt(LowerCase, CHOOSE i \in 1..Len(UpperCase) : CharAt(UpperCase, i) = c)]

ToLowerChar(c) == IF c \in DOMAIN LowerOf THEN LowerOf[c] ELSE c

RECURSIVE ToLower(_)
ToLower(s) ==
    IF Len(s) = 0 THEN ""
    ELSE ToLowerChar(CharAt(s, 1)) \o ToLower(SubSeq(s, 2, Len(s)))

generateServiceName(cfg, fullName) ==
    IF cfg.CustomServiceName # "" THEN cfg.CustomServiceName
    ELSE cfg.ServiceNamePrefix
         \o ToLower(ReplaceAll(ReplaceAll(fullName, "/", "-"), "_", "-"))
         \o cfg.ServiceNameSuffix

----------------------------------------------------------------------------
(* Spans and traces (ptrace).                                              *)

\* What Spans().AppendEmpty() appends: a span with zero-valued fields.
EmptySpan ==
    [TraceID |-> EmptySpanID, SpanID |-> EmptySpanID,
     ParentSpanID |-> EmptySpanID, Name |-> "", Kind |-> "Unspecified",
     StartTimestamp |-> 0, EndTimestamp |-> 0,
     StatusCode |-> "Unset", StatusMessage |-> ""]

\* ptrace.Traces{}: the zero value returned beside an error.
ZeroTraces == [Resource |-> <<>>, ScopeSpans |-> <<>>]

\* The loop of createParentSpan over the steps, from position i on; it
\* leaves the loop at the first step whose Conclusion is "failure".
RECURSIVE StepsLoop(_, _, _, _)
StepsLoop(steps, i, allSuccessful, anyFailure) ==
    IF i > Len(steps)
    THEN [allSuccessful |-> allSuccessful, anyFailure |-> anyFailure]
    ELSE LET step == steps[i]
             all2 == IF step.Status # "completed" \/ step.Conclusion # "success"
                     THEN FALSE ELSE allSuccessful
         IN  IF step.Conclusion = "failure"
             THEN [allSuccessful |-> all2, anyFailure |-> TRUE]
             ELSE StepsLoop(steps, i + 1, all2, anyFailure)

\* Variant of JobStatusCode that looks at the steps' Conclusion only.
JobStatusCodeIgnoringStatus(steps) ==
    IF \E k \in 1..Len(steps) : steps[k].Conclusion = "failure" THEN "Error"
    ELSE IF \A k \in 1..Len(steps) : steps[k].Conclusion = "success" THEN "Ok"
    ELSE "Unset"

\* The status code createParentSpan gives the job span.
JobStatusCode(steps) ==
    LET r == StepsLoop(steps, 1, TRUE, FALSE)
    IN  IF r.anyFailure THEN "Error"
        ELSE IF r.allSuccessful THEN "Ok"
        ELSE "Unset"

\* Variant of JobSpanTimes that ends the job span with the first step.
JobSpanTimesFirstStep(span, steps, job) ==
    IF Len(steps) > 0
    THEN setSpanTimes(span, steps[1].StartedAt, steps[1].CompletedAt)
    ELSE setSpanTimes(span, job.CreatedAt, job.CompletedAt)

\* The span times createParentSpan gives the job span.
JobSpanTimes(span, steps, job) ==
    IF Len(steps) > 0
    THEN setSpanTimes(span, steps[1].StartedAt, steps[Len(steps)].CompletedAt)
    ELSE setSpanTimes(span, job.CreatedAt, job.CompletedAt)

\* The span identifier createParentSpan gives the job span.
JobSpanID(job) == generateJobSpanID(job.ID, job.RunAttempt, job.Name)

\* createParentSpan: the job span appended to the scope's spans.
createParentSpan(steps, job, traceID) ==
    LET s1 == [EmptySpan EXCEPT !.TraceID = traceID,
                                !.ParentSpanID = generateParentSpanID(job.RunID, job.RunAttempt),
                                !.SpanID = JobSpanID(job),
                                !.Name = job.Name,
                                !.Kind = "Server"]
        s2 == JobSpanTimes(s1, steps, job)
    IN  [s2 EXCEPT !.StatusCode = JobStatusCode(steps)]

\* The switch on a Conclusion in createSpan and createRootSpan.
ConclusionCode(conclusion) ==
    CASE conclusion = "success" -> "Ok"
      [] conclusion = "failure" -> "Error"
      [] OTHER -> "Unset"

\* createSpan: the span of one step; spanID is what generateSpanID returned.
createSpan(step, traceID, parentSpanID, spanID) ==
    LET s1 == [EmptySpan EXCEPT !.TraceID = traceID,
                                !.ParentSpanID = parentSpanID,
                                !.SpanID = spanID]
        s2 == setSpanTimes(s1, step.StartedAt, step.CompletedAt)
    IN  [s2 EXCEPT !.Name = step.Name,
                   !.Kind = "Server",
                   !.StatusCode = ConclusionCode(step.Conclusion),
                   !.StatusMessage = step.Conclusion]

\* processSteps: one span per step, in the steps' order; rnd[i] is the value
\* generateSpanID returned for step i.
processSteps(steps, traceID, parentSpanID, rnd) ==
    [i \in 1..Len(steps) |-> createSpan(steps[i], traceID, parentSpanID, rnd[i])]

\* Variant of RootSpanID that derives the identifier like a job span's.
RootSpanIDByName(run) == generateJobSpanID(run.ID, run.RunAttempt, run.Name)

\* The span identifier createRootSpan gives the root span.
RootSpanID(run) == generateParentSpanID(run.ID, run.RunAttempt)

\* createRootSpan: the span of a workflow run.
createRootSpan(event, traceID) ==
    LET run == event.WorkflowRun
        s1 == [EmptySpan EXCEPT !.TraceID = traceID,
                                !.SpanID = RootSpanID(run),
                                !.Name = run.Name,
                                !.Kind = "Server"]
        s2 == setSpanTimes(s1, run.RunStartedAt, run.UpdatedAt)
    IN  [s2 EXCEPT !.StatusCode = ConclusionCode(run.Conclusion),
                   !.StatusMessage = run.Conclusion]

JobAttributeKeys ==
    {"service.name", "ci.system", "ci.actor", "ci.github.job",
     "ci.github.run_id", "ci.github.run_attempt", "ci.github.runner.name",
     "ci.github.workflow", "scm.system", "scm.git.branch", "scm.git.sha",
     "scm.git.repo"}

RunAttributeKeys ==
    {"service.name", "ci.system", "ci.actor", "ci.github.run_id",
     "ci.github.run_attempt", "ci.github.workflow",
     "ci.github.workflow_path", "scm.system", "scm.git.branch",
     "scm.git.sha", "scm.git.repo"}

\* createResourceAttributes: the attributes put on the resource.
createResourceAttributes(e, cfg) ==
    IF e.type = "WorkflowJobEvent"
    THEN [k \in JobAttributeKeys |->
            CASE k = "service.name" -> generateServiceName(cfg, e.Repository.FullName)
              [] k = "ci.system" -> "github"
              [] k = "ci.actor" -> e.Repository.Owner.Login
              [] k = "ci.github.job" -> e.WorkflowJob.Name
              [] k = "ci.github.run_id" -> e.WorkflowJob.RunID
              [] k = "ci.github.run_attempt" -> e.WorkflowJob.RunAttempt
              [] k = "ci.github.runner.name" -> e.WorkflowJob.RunnerName
              [] k = "ci.github.workflow" -> e.WorkflowJob.WorkflowName
              [] k = "scm.system" -> "git"
              [] k = "scm.git.branch" -> e.WorkflowJob.HeadBranch
              [] k = "scm.git.sha" -> e.WorkflowJob.HeadSha
              [] k = "scm.git.repo" -> e.Repository.FullName]
    ELSE IF e.type = "WorkflowRunEvent"
    THEN [k \in RunAttributeKeys |->
            CASE k = "service.name" -> generateServiceName(cfg, e.Repository.FullName)
              [] k = "ci.system" -> "github"
              [] k = "ci.actor" -> e.WorkflowRun.Repository.Owner.Login
              [] k = "ci.github.run_id" -> e.WorkflowRun.ID
              [] k = "ci.github.run_attempt" -> e.WorkflowRun.RunAttempt
              [] k = "ci.github.workflow" -> e.WorkflowRun.Name
              [] k = "ci.github.workflow_path" -> e.WorkflowRun.Path
              [] k = "scm.system" -> "git"
              [] k = "scm.git.branch" -> e.WorkflowRun.HeadBranch
              [] k = "scm.git.sha" -> e.WorkflowRun.HeadSha
              [] k = "scm.git.repo" -> e.Repository.FullName]
    ELSE <<>>

\* The spans eventToTraces builds for a completed job event.
JobSpans(job, traceID, rnd) ==
    LET parent == createParentSpan(job.Steps, job, traceID)
    IN  <<parent>> \o processSteps(job.Steps, traceID, parent.SpanID, rnd)

\* Variant of JobScopeSpans without the test of the job's Status.
JobScopeSpansAnyStatus(job, traceID, rnd) == <<JobSpans(job, traceID, rnd)>>

\* The scope spans eventToTraces leaves for a job event: spans are built
\* only when the job's Status is "completed".
JobScopeSpans(job, traceID, rnd) ==
    IF job.Status = "completed"
    THEN <<JobSpans(job, traceID, rnd)>>
    ELSE << <<>> >>

\* eventToTraces: the traces and the error for a decoded event.  The hex
\* decoding inside generateTraceID reads a string hex.EncodeToString wrote,
\* so its error branch is never taken.
eventToTraces(e, cfg, rnd) ==
    IF e.type = "WorkflowJobEvent"
    THEN LET job == e.WorkflowJob
             traceID == generateTraceID(job.RunID, job.RunAttempt)
         IN  [traces |-> [Resource |-> createResourceAttributes(e, cfg),
                          ScopeSpans |-> JobScopeSpans(job, traceID, rnd)],
              err |-> "nil"]
    ELSE IF e.type = "WorkflowRunEvent"
    THEN LET run == e.WorkflowRun
             traceID == generateTraceID(run.ID, run.RunAttempt)
         IN  [traces |->
                  IF run.Status = "completed"
                  THEN [Resource |-> createResourceAttributes(e, cfg),
                        ScopeSpans |-> << <<>>, <<createRootSpan(e, traceID)>> >>]
                  ELSE [Resource |-> <<>>, ScopeSpans |-> << <<>> >>],
              err |-> "nil"]
    ELSE [traces |-> ZeroTraces, err |-> "unknown event type, dropping payload"]

\* All spans of a traces value, scope after scope.
RECURSIVE Flatten(_)
Flatten(ss) == IF Len(ss) = 0 THEN <<>> ELSE Head(ss) \o Flatten(Tail(ss))

AllSpans(traces) == Flatten(traces.ScopeSpans)

\* td.SpanCount()
SpanCount(traces) == Len(AllSpans(traces))

----------------------------------------------------------------------------
(* Decoded events (WorkflowJobEvent, WorkflowRunEvent) the model draws.    *)

Repository == [FullName |-> "Org/Repo_Name", Owner |-> [Login |-> "octo"]]

\* Offsets from the Unix epoch; -1 is a time before 1970.
Times == {-1, 0, 1}

Step(name, status, conclusion, startedAt, completedAt) ==
    [Name |-> name, Status |-> status, Conclusion |-> conclusion,
     StartedAt |-> startedAt, CompletedAt |-> completedAt]

\* Steps that differ in status and conclusion, and steps that differ in time.
StepOutcomes ==
    {<<"completed", "success">>, <<"completed", "failure">>,
     <<"completed", "skipped">>, <<"in_progress", "">>,
     <<"in_progress", "success">>}

StepPool ==
    {Step("build", o[1], o[2], 0, 1) : o \in StepOutcomes}
    \cup {Step("test", "completed", "success", a, b) : a \in Times, b \in Times}

StepSeqs == UNION {[1..n -> StepPool] : n \in 0..MaxSteps}

JobEvent(id, runID, runAttempt, name, status, steps) ==
    [type |-> "WorkflowJobEvent",
     WorkflowJob |->
        [ID |-> id, RunID |-> runID, RunAttempt |-> runAttempt, Name |-> name,
         Status |-> status, Conclusion |-> "", Steps |-> steps,
         HeadBranch |-> "main", HeadSha |-> "abc", RunnerName |-> "runner-1",
         WorkflowName |-> "CI", CreatedAt |-> 0, CompletedAt |-> 1],
     Repository |-> Repository]

RunEvent(id, runAttempt, status, conclusion) ==
    [type |-> "WorkflowRunEvent",
     WorkflowRun |->
        [ID |-> id, RunAttempt |-> runAttempt, Name |-> "CI",
         Path |-> ".github/workflows/ci.yml", Status |-> status,
         Conclusion |-> conclusion, HeadBranch |-> "main", HeadSha |-> "abc",
         RunStartedAt |-> 0, UpdatedAt |-> 1, Repository |-> Repository],
     Repository |-> Repository]

RunIDs == {1, 12}

JobRunIDs == {1}

JobIDs == {1, 7}

JobNames == {"build", "s"}

JobStatuses == {"completed", "in_progress"}

\* Job events of one run attempt with every step sequence of the pool.
JobEvents ==
    {JobEvent(id, runID, 1, name, status, steps) :
        id \in JobIDs, runID \in JobRunIDs, name \in JobNames,
        status \in JobStatuses, steps \in StepSeqs}

\* Events of several runs and attempts, with one step each.
OneStep == <<Step("build", "completed", "success", 0, 1)>>

CorrJobEvents ==
    {JobEvent(id, runID, 1, "build", "completed", OneStep) :
        id \in JobIDs, runID \in RunIDs}

CorrRunEvents ==
    {RunEvent(id, a, status, "success") :
        id \in RunIDs, a \in {1, 2}, status \in JobStatuses}

DefaultConfig ==
    [Secret |-> "", Path |-> "/events", CustomServiceName |-> "",
     ServiceNamePrefix |-> "ci-", ServiceNameSuffix |-> ""]

----------------------------------------------------------------------------
(* Conversion of decoded events, outside a request.                        *)

NoRequest == [userAgent |-> "", path |-> "", readErr |-> FALSE,
              sig256 |-> "", sig1 |-> "", body |-> 0]

ServerIdle ==
    /\ config = DefaultConfig
    /\ pc = "idle"
    /\ req = NoRequest
    /\ td = ZeroTraces
    /\ resp = [code |-> 0, text |-> ""]
    /\ calls = 0
    /\ sink = <<>>
    /\ served = 0

NumSteps(e) == IF e.type = "WorkflowJobEvent" THEN Len(e.WorkflowJob.Steps) ELSE 0

\* One call of eventToTraces, recorded with its event.
Conversion(e, rnd) ==
    LET r == eventToTraces(e, config, rnd)
    IN  [event |-> e, traces |-> r.traces, err |-> r.err]

InitJob ==
    /\ ServerIdle
    /\ inbox \in {<<e>> : e \in JobEvents}
    /\ delivered = <<>>

\* eventToTraces on the job event drawn.
Convert ==
    /\ delivered = <<>>
    /\ \E rnd \in [1..NumSteps(inbox[1]) -> RandomSpanIDs] :
          delivered' = <<Conversion(inbox[1], rnd)>>
    /\ UNCHANGED <<inbox, serverVars>>

NextJob == Convert

SpecJob == InitJob /\ [][NextJob]_vars

InitCorr ==
    /\ ServerIdle
    /\ inbox \in {<<j1, j2, r>> : j1 \in CorrJobEvents, j2 \in CorrJobEvents,
                                  r \in CorrRunEvents}
    /\ delivered = <<>>

\* eventToTraces on one of the events drawn, in any order and repeatedly.
Deliver(i) ==
    /\ Len(delivered) < MaxDeliveries
    /\ \E rnd \in [1..NumSteps(inbox[i]) -> RandomSpanIDs] :
          delivered' = Append(delivered, Conversion(inbox[i], rnd))
    /\ UNCHANGED <<inbox, serverVars>>

NextCorr == \E i \in 1..3 : Deliver(i)

SpecCorr == InitCorr /\ [][NextCorr]_vars

----------------------------------------------------------------------------
(* Properties of the conversion (SpecJob, SpecCorr).                       *)

IsJob(d) == d.event.type = "WorkflowJobEvent"

IsRun(d) == d.event.type = "WorkflowRunEvent"

CompletedJob(d) == IsJob(d) /\ d.event.WorkflowJob.Status = "completed"

CompletedRun(d) == IsRun(d) /\ d.event.WorkflowRun.Status = "completed"

Deliveries == {delivered[i] : i \in 1..Len(delivered)}

\* The job span of a completed job's traces: the first span built.
JobSpanOf(d) == AllSpans(d.traces)[1]

\* The step spans of a completed job's traces.
StepSpansOf(d) == Tail(AllSpans(d.traces))

\* C2: any two completed job events that agree on RunID, RunAttempt and
\* job Name produce job spans with the same SpanID, whatever the job ID is.
C2_JobSpanIDFunctionOfRunKey ==
    \A d1 \in Deliveries, d2 \in Deliveries :
        (/\ CompletedJob(d1) /\ CompletedJob(d2)
         /\ d1.event.WorkflowJob.RunID = d2.event.WorkflowJob.RunID
         /\ d1.event.WorkflowJob.RunAttempt = d2.event.WorkflowJob.RunAttempt
         /\ d1.event.WorkflowJob.Name = d2.event.WorkflowJob.Name)
        => JobSpanOf(d1).SpanID = JobSpanOf(d2).SpanID

\* C3: a completed job event and a completed run event of the same run and
\* attempt give spans of one trace, and the job span's parent is the run's
\* root span, in whatever order and however often they are delivered.
C3_CrossKindCorrelation ==
    \A dj \in Deliveries, dr \in Deliveries :
        (/\ CompletedJob(dj) /\ CompletedRun(dr)
         /\ dj.event.WorkflowJob.RunID = dr.event.WorkflowRun.ID
         /\ dj.event.WorkflowJob.RunAttempt = dr.event.WorkflowRun.RunAttempt)
        => /\ SpanCount(dr.traces) = 1
           /\ JobSpanOf(dj).TraceID = AllSpans(dr.traces)[1].TraceID
           /\ JobSpanOf(dj).ParentSpanID = AllSpans(dr.traces)[1].SpanID

\* Witness of C3: the run was delivered first, then the job twice.
C3_Witness ==
    /\ Len(delivered) = 3
    /\ CompletedRun(delivered[1])
    /\ CompletedJob(delivered[2])
    /\ delivered[3].event = delivered[2].event
    /\ delivered[2].event.WorkflowJob.RunID = delivered[1].event.WorkflowRun.ID
    /\ delivered[2].event.WorkflowJob.RunAttempt
          = delivered[1].event.WorkflowRun.RunAttempt
    /\ JobSpanOf(delivered[2]).ParentSpanID = AllSpans(delivered[1].traces)[1].SpanID

\* C6: the job span's status is Error if any step concluded "failure",
\* otherwise Ok if every step is completed with conclusion "success",
\* otherwise Unset, wherever the steps stand in the sequence.
C6_JobStatusAggregation ==
    \A d \in Deliveries :
        CompletedJob(d) =>
            LET steps == d.event.WorkflowJob.Steps
            IN  JobSpanOf(d).StatusCode =
                    IF \E k \in 1..Len(steps) : steps[k].Conclusion = "failure"
                    THEN "Error"
                    ELSE IF \A k \in 1..Len(steps) :
                                /\ steps[k].Status = "completed"
                                /\ steps[k].Conclusion = "success"
                    THEN "Ok"
                    ELSE "Unset"

\* Witness of C6: a failure that follows a step that is not successful.
C6_Witness ==
    \E d \in Deliveries :
        /\ CompletedJob(d)
        /\ Len(d.event.WorkflowJob.Steps) = 2
        /\ d.event.WorkflowJob.Steps[1].Status = "in_progress"
        /\ d.event.WorkflowJob.Steps[2].Conclusion = "failure"
        /\ JobSpanOf(d).StatusCode = "Error"

\* C7: a job event whose Status is not "completed" converts without error
\* to traces with the job's resource attributes and no span; a job event
\* yields spans only when its Status is "completed".
C7_IncompleteJobNoSpans ==
    \A d \in Deliveries :
        IsJob(d) =>
            /\ d.event.WorkflowJob.Status # "completed" =>
                  /\ d.err = "nil"
                  /\ SpanCount(d.traces) = 0
                  /\ DOMAIN d.traces.Resource = JobAttributeKeys
                  /\ d.traces.Resource["ci.github.job"] = d.event.WorkflowJob.Name
                  /\ d.traces.Resource["ci.github.run_id"] = d.event.WorkflowJob.RunID
                  /\ d.traces.Resource["service.name"] = "ci-org-repo-name"
            /\ SpanCount(d.traces) > 0 => d.event.WorkflowJob.Status = "completed"

\* Witness of C7: an in-progress job with steps was converted.
C7_Witness ==
    \E d \in Deliveries :
        /\ IsJob(d)
        /\ d.event.WorkflowJob.Status = "in_progress"
        /\ Len(d.event.WorkflowJob.Steps) = 2
        /\ SpanCount(d.traces) = 0
        /\ d.traces.Resource["scm.git.repo"] = "Org/Repo_Name"

\* Every step span lies within the job span, whose range runs from the
\* first step's start to the last step's end.
StepsContained(d) ==
    LET job == JobSpanOf(d)
        ss == StepSpansOf(d)
    IN  /\ job.StartTimestamp = ss[1].StartTimestamp
        /\ job.EndTimestamp = ss[Len(ss)].EndTimestamp
        /\ \A k \in 1..Len(ss) :
              /\ job.StartTimestamp <= ss[k].StartTimestamp
              /\ ss[k].EndTimestamp <= job.EndTimestamp

\* The step spans start in sequence order and end in sequence order.
StepsChronological(d) ==
    LET ss == StepSpansOf(d)
    IN  \A k \in 1..Len(ss), l \in 1..Len(ss) :
            k < l => /\ ss[k].StartTimestamp <= ss[l].StartTimestamp
                     /\ ss[k].EndTimestamp <= ss[l].EndTimestamp

\* C9 as stated: for every completed job event with steps, each step span's
\* time range lies within the job span's.
C9_TimeContainment ==
    \A d \in Deliveries :
        (CompletedJob(d) /\ Len(d.event.WorkflowJob.Steps) > 0) => StepsContained(d)

\* C9 amended: the containment holds for every completed job event whose
\* step spans are in chronological order.
C9_TimeContainmentChronological ==
    \A d \in Deliveries :
        (/\ CompletedJob(d)
         /\ Len(d.event.WorkflowJob.Steps) > 0
         /\ StepsChronological(d))
        => StepsContained(d)

\* Witness of C9 amended: two chronological steps with different times.
C9_Witness ==
    \E d \in Deliveries :
        /\ CompletedJob(d)
        /\ Len(d.event.WorkflowJob.Steps) = 2
        /\ StepsChronological(d)
        /\ StepSpansOf(d)[1].EndTimestamp < StepSpansOf(d)[2].EndTimestamp
        /\ JobSpanOf(d).EndTimestamp = 1

\* C10: a completed job event with n steps gives n+1 spans, the job span
\* and then the steps in order, all of the run's trace; the steps' parent
\* is the job span, the job span's parent is the run-level parent, and
\* that parent is the only one referenced but not emitted.
C10_SpanTreeShape ==
    \A d \in Deliveries :
        CompletedJob(d) =>
            LET job == d.event.WorkflowJob
                spans == AllSpans(d.traces)
                runParent == generateParentSpanID(job.RunID, job.RunAttempt)
            IN  /\ Len(spans) = Len(job.Steps) + 1
                /\ spans[1].Name = job.Name
                /\ \A k \in 1..Len(job.Steps) :
                      /\ spans[k + 1].Name = job.Steps[k].Name
                      /\ spans[k + 1].StatusMessage = job.Steps[k].Conclusion
                      /\ spans[k + 1].ParentSpanID = spans[1].SpanID
                /\ \A k \in 1..Len(spans) :
                      spans[k].TraceID = generateTraceID(job.RunID, job.RunAttempt)
                /\ spans[1].ParentSpanID = runParent
                /\ {spans[k].ParentSpanID : k \in 1..Len(spans)}
                      \ {spans[k].SpanID : k \in 1..Len(spans)} = {runParent}

----------------------------------------------------------------------------
(* Signature verification (validateSignatureSHA256, validateSignatureSHA1) *)

\* hex.EncodeToString of the HMAC of `body` under `secret`.
HmacHex(hash, secret, body) == hash \o "(" \o secret \o "," \o body \o ")"

\* s[n:] of Go, for n <= len(s).
SliceFrom(s, n) == SubSeq(s, n + 1, Len(s))

\* strings.HasPrefix
HasPrefix(s, prefix) ==
    Len(s) >= Len(prefix) /\ SubSeq(s, 1, Len(prefix)) = prefix

\* validateSignatureSHA256: "true" or "false".
validateSignatureSHA256(secret, signatureHeader, body) ==
    IF signatureHeader = "" \/ Len(signatureHeader) < 7
    THEN "false"
    ELSE IF HmacHex("sha256", secret, body) = SliceFrom(signatureHeader, 7)
    THEN "true"
    ELSE "false"

\* validateSignatureSHA1: "true" or "false", or "panic" when the slice
\* expression signatureHeader[5:] is out of range (a run-time panic).
validateSignatureSHA1(secret, signatureHeader, body) ==
    IF signatureHeader = ""
    THEN "false"
    ELSE IF Len(signatureHeader) < 5
    THEN "panic"
    ELSE IF HmacHex("sha1", secret, body) = SliceFrom(signatureHeader, 5)
    THEN "true"
    ELSE "false"

\* The signature validation of ServeHTTP: "ok", "unauthorized", or "panic".
Authenticate(cfg, r) ==
    IF cfg.Secret # ""
    THEN IF r.sig256 # ""
            /\ validateSignatureSHA256(cfg.Secret, r.sig256, r.body.raw) # "true"
         THEN "unauthorized"
         ELSE IF r.sig1 # ""
              THEN LET v == validateSignatureSHA1(cfg.Secret, r.sig1, r.body.raw)
                   IN  IF v = "panic" THEN "panic"
                       ELSE IF v # "true" THEN "unauthorized"
                       ELSE "ok"
              ELSE "ok"
    ELSE "ok"

----------------------------------------------------------------------------
(* Decoding (jsonTracesUnmarshaler.UnmarshalTraces).                       *)

\* A request body: its bytes (raw), whether they are a JSON object, the
\* object's top-level keys, and what decoding them into each of the two
\* event types gives.
Body(raw, syntax, keys, jobOk, job, runOk, run) ==
    [raw |-> raw, syntax |-> syntax, keys |-> keys,
     jobDecode |-> [ok |-> jobOk, event |-> job],
     runDecode |-> [ok |-> runOk, event |-> run]]

AJob(status) == JobEvent(7, 1, 1, "build", status, OneStep)

ARun == RunEvent(1, 1, "completed", "success")

\* What decoding a body without the event's key gives: zero-valued fields.
NoJob == JobEvent(0, 0, 0, "", "", <<>>)

NoRun == RunEvent(0, 0, "", "")

Bodies ==
    {Body("not json", "invalid", {}, FALSE, NoJob, FALSE, NoRun),
     Body("ping", "object", {"zen"}, TRUE, NoJob, TRUE, NoRun),
     Body("job-badly-typed", "object", {"workflow_job"}, FALSE, NoJob, TRUE, NoRun),
     Body("job-completed", "object", {"workflow_job"}, TRUE, AJob("completed"), TRUE, NoRun),
     Body("job-in-progress", "object", {"workflow_job"}, TRUE, AJob("in_progress"), TRUE, NoRun),
     Body("run-completed", "object", {"workflow_run"}, TRUE, NoJob, TRUE, ARun),
     Body("job-and-run", "object", {"workflow_job", "workflow_run"},
          TRUE, AJob("completed"), TRUE, ARun)}

\* Variant of UnmarshalTraces that reports no error for an unknown event.
UnmarshalTracesUnknownAccepted(blob, cfg, rnd) ==
    IF blob.syntax # "object"
    THEN [traces |-> ZeroTraces, err |-> "invalid JSON"]
    ELSE IF "workflow_job" \in blob.keys
    THEN IF ~blob.jobDecode.ok
         THEN [traces |-> ZeroTraces, err |-> "cannot unmarshal job event"]
         ELSE eventToTraces(blob.jobDecode.event, cfg, rnd)
    ELSE IF "workflow_run" \in blob.keys
    THEN IF ~blob.runDecode.ok
         THEN [traces |-> ZeroTraces, err |-> "cannot unmarshal run event"]
         ELSE eventToTraces(blob.runDecode.event, cfg, rnd)
    ELSE [traces |-> ZeroTraces, err |-> "nil"]

\* UnmarshalTraces: the traces and the error for a request body.
UnmarshalTraces(blob, cfg, rnd) ==
    IF blob.syntax # "object"
    THEN [traces |-> ZeroTraces, err |-> "invalid JSON"]
    ELSE IF "workflow_job" \in blob.keys
    THEN IF ~blob.jobDecode.ok
         THEN [traces |-> ZeroTraces, err |-> "cannot unmarshal job event"]
         ELSE LET r == eventToTraces(blob.jobDecode.event, cfg, rnd)
              IN  IF r.err # "nil" THEN [traces |-> ZeroTraces, err |-> r.err] ELSE r
    ELSE IF "workflow_run" \in blob.keys
    THEN IF ~blob.runDecode.ok
         THEN [traces |-> ZeroTraces, err |-> "cannot unmarshal run event"]
         ELSE LET r == eventToTraces(blob.runDecode.event, cfg, rnd)
              IN  IF r.err # "nil" THEN [traces |-> ZeroTraces, err |-> r.err] ELSE r
    ELSE [traces |-> ZeroTraces, err |-> "unknown event type"]

\* The number of random span identifiers decoding a body may draw.
BodySteps(blob) ==
    IF blob.syntax = "object" /\ "workflow_job" \in blob.keys /\ blob.jobDecode.ok
    THEN NumSteps(blob.jobDecode.event)
    ELSE 0

----------------------------------------------------------------------------
(* The HTTP handler (githubActionsEventReceiver.ServeHTTP).                *)

Secrets == {"", "s3cret"}

Configs == {[DefaultConfig EXCEPT !.Secret = secret] : secret \in Secrets}

\* The signature headers a sender may attach to a body: none, one signed
\* with the receiver's secret, one signed with another secret, and one
\* shorter than the scheme's prefix.
Sig256Headers(body) ==
    {"", "sha256=" \o HmacHex("sha256", "s3cret", body.raw),
     "sha256=" \o HmacHex("sha256", "guess", body.raw), "sha256"}

Sig1Headers(body) ==
    {"", "sha1=" \o HmacHex("sha1", "s3cret", body.raw),
     "sha1=" \o HmacHex("sha1", "guess", body.raw), "sha1"}

Request(userAgent, path, readErr, sig256, sig1, body) ==
    [userAgent |-> userAgent, path |-> path, readErr |-> readErr,
     sig256 |-> sig256, sig1 |-> sig1, body |-> body]

PingBody == Body("ping", "object", {"zen"}, TRUE, NoJob, TRUE, NoRun)

Requests ==
    {Request("curl/8.0", "/events", FALSE, "", "", PingBody),
     Request("GitHub-Hookshot/abc", "/other", FALSE, "", "", PingBody),
     Request("GitHub-Hookshot/abc", "/events", TRUE, "", "", PingBody)}
    \cup UNION {{Request("GitHub-Hookshot/abc", "/events", FALSE, s256, s1, b) :
                    s256 \in Sig256Headers(b), s1 \in Sig1Headers(b)} :
                 b \in Bodies}

\* A response written with http.Error or WriteHeader; code 0: none yet.
Response(code, text) == [code |-> code, text |-> text]

NoResponse == Response(0, "")

Init ==
    /\ config \in Configs
    /\ pc = "idle"
    /\ req = NoRequest
    /\ td = ZeroTraces
    /\ resp = NoResponse
    /\ calls = 0
    /\ sink = <<>>
    /\ served = 0
    /\ inbox = <<>>
    /\ delivered = <<>>

\* The HTTP server calls ServeHTTP with a request.
Arrive ==
    /\ pc \in {"idle", "done", "panicked"}
    /\ served < MaxRequests
    /\ req' \in Requests
    /\ pc' = "check"
    /\ td' = ZeroTraces
    /\ resp' = NoResponse
    /\ calls' = 0
    /\ served' = served + 1
    /\ UNCHANGED <<config, sink, convVars>>

\* ServeHTTP up to the reading of the body: User-Agent, path, io.ReadAll.
CheckRequest ==
    /\ pc = "check"
    /\ IF ~HasPrefix(req.userAgent, "GitHub-Hookshot")
       THEN pc' = "done" /\ resp' = Response(403, "Forbidden")
       ELSE IF req.path # config.Path
       THEN pc' = "done" /\ resp' = Response(404, "Not found")
       ELSE IF req.readErr
       THEN pc' = "done" /\ resp' = Response(500, "Failed to read request body")
       ELSE pc' = "auth" /\ resp' = resp
    /\ UNCHANGED <<config, req, td, calls, sink, served, convVars>>

\* ServeHTTP: the validation of the request's signature.  A panic ends the
\* handler; net/http recovers it and writes no response.
Verify ==
    /\ pc = "auth"
    /\ LET a == Authenticate(config, req)
       IN  IF a = "unauthorized"
           THEN pc' = "done" /\ resp' = Response(401, "Unauthorized")
           ELSE IF a = "panic"
           THEN pc' = "panicked" /\ resp' = resp
           ELSE pc' = "unmarshal" /\ resp' = resp
    /\ UNCHANGED <<config, req, td, calls, sink, served, convVars>>

\* ServeHTTP: the call of UnmarshalTraces.
Unmarshal ==
    /\ pc = "unmarshal"
    /\ \E rnd \in [1..BodySteps(req.body) -> RandomSpanIDs] :
          LET r == UnmarshalTraces(req.body, config, rnd)
          IN  IF r.err # "nil"
              THEN pc' = "done" /\ resp' = Response(400, r.err) /\ td' = td
              ELSE pc' = "consume" /\ resp' = resp /\ td' = r.traces
    /\ UNCHANGED <<config, req, calls, sink, served, convVars>>

\* ServeHTTP: the call of nextConsumer.ConsumeTraces, which may fail, and
\* the response that follows it.
Consume ==
    /\ pc = "consume"
    /\ \E consumerErr \in BOOLEAN :
          /\ sink' = Append(sink, [request |-> served, td |-> td,
                                    failed |-> consumerErr])
          /\ resp' = IF consumerErr
                     THEN Response(500, "Failed to process traces")
                     ELSE Response(202, "")
    /\ calls' = calls + 1
    /\ pc' = "done"
    /\ UNCHANGED <<config, req, td, served, convVars>>

Next == Arrive \/ CheckRequest \/ Verify \/ Unmarshal \/ Consume

Spec == Init /\ [][Next]_vars

----------------------------------------------------------------------------
(* Properties of the handler (Spec).                                       *)

\* The request passed the checks that precede the signature validation.
EnvelopeOk ==
    /\ HasPrefix(req.userAgent, "GitHub-Hookshot")
    /\ req.path = config.Path
    /\ ~req.readErr

\* The handler is past the signature validation of the request.
VerificationDone ==
    /\ pc \in {"unmarshal", "consume", "done", "panicked"}
    /\ EnvelopeOk

Valid256 == req.sig256 = "sha256=" \o HmacHex("sha256", config.Secret, req.body.raw)

Valid1 == req.sig1 = "sha1=" \o HmacHex("sha1", config.Secret, req.body.raw)

SignatureAbsent == req.sig256 = "" /\ req.sig1 = ""

\* The signature of the scheme that applies (SHA-256, else SHA-1) is wrong.
SignatureMismatched ==
    \/ req.sig256 # "" /\ ~Valid256
    \/ req.sig256 = "" /\ req.sig1 # "" /\ ~Valid1

RejectedUnauthenticated == pc = "done" /\ resp.code = 401

\* The sink's records of the request being served.
SinkEntries(n) == {i \in 1..Len(sink) : sink[i].request = n}

\* C1: with a secret configured, a request whose signature is absent or
\* mismatched is rejected as unauthenticated, and no trace is built or
\* handed to the sink for it.
C1_UnsignedRejected ==
    (config.Secret # "" /\ VerificationDone
        /\ (SignatureAbsent \/ SignatureMismatched))
    => /\ RejectedUnauthenticated
       /\ td = ZeroTraces
       /\ calls = 0
       /\ SinkEntries(served) = {}

\* C4: when a SHA-256 signature header is present, the SHA-256 check alone
\* decides: a valid SHA-256 signature is not rejected whatever the SHA-1
\* header holds, and an invalid one is rejected.
C4_Sha256Precedence ==
    (config.Secret # "" /\ VerificationDone /\ req.sig256 # "")
    => /\ Valid256 => ~RejectedUnauthenticated
       /\ ~Valid256 => RejectedUnauthenticated

\* The handler called validateSignatureSHA1 for the request.
Sha1Checked == req.sig1 # "" /\ (req.sig256 = "" \/ Valid256)

\* C5: a signature header that is present but shorter than its scheme's
\* prefix makes the verification return false, for both schemes, and the
\* verification never ends in another way than by returning a boolean.
C5_ShortHeaderIsFalse ==
    (config.Secret # "" /\ VerificationDone)
    => /\ pc # "panicked"
       /\ req.sig256 # "" =>
             /\ validateSignatureSHA256(config.Secret, req.sig256, req.body.raw)
                   \in {"true", "false"}
             /\ Len(req.sig256) < Len("sha256=") =>
                   validateSignatureSHA256(config.Secret, req.sig256, req.body.raw)
                      = "false"
       /\ Sha1Checked =>
             /\ validateSignatureSHA1(config.Secret, req.sig1, req.body.raw)
                   \in {"true", "false"}
             /\ Len(req.sig1) < Len("sha1=") =>
                   validateSignatureSHA1(config.Secret, req.sig1, req.body.raw)
                      = "false"

\* The body classifies as one of the two event kinds and decodes as it.
Decodable(b) ==
    /\ b.syntax = "object"
    /\ IF "workflow_job" \in b.keys
       THEN b.jobDecode.ok
       ELSE "workflow_run" \in b.keys /\ b.runDecode.ok

\* No signature header that the handler validates is wrong.
SignatureNotRejected ==
    \/ config.Secret = ""
    \/ /\ req.sig256 # "" => Valid256
       /\ req.sig1 # "" => Valid1

C8_State ==
    /\ calls <= 1
    /\ \A n \in 1..served : Cardinality(SinkEntries(n)) <= 1
    /\ Cardinality(SinkEntries(served)) = calls
    /\ (pc = "consume" \/ calls = 1)
          => EnvelopeOk /\ SignatureNotRejected /\ Decodable(req.body)
    /\ pc = "consume" => calls = 0
    /\ resp.code \in {400, 401, 403, 404} => calls = 0
    /\ pc = "panicked" => calls = 0
    /\ resp.text = "Failed to process traces" => (pc = "done" /\ calls = 1)

C8_Step ==
    /\ sink' # sink =>
          /\ pc = "consume" /\ pc' = "done"
          /\ Len(sink') = Len(sink) + 1
          /\ SubSeq(sink', 1, Len(sink)) = sink
          /\ calls' = calls + 1
          /\ resp'.code = IF sink'[Len(sink')].failed THEN 500 ELSE 202
    /\ sink' = sink => (calls' = calls \/ calls' = 0)

\* C8: for every request the sink is called at most once, and only after
\* the signature validation did not reject it and its body was classified
\* and decoded; a rejected request never reaches the sink, and a failure of
\* the sink ends the request without a second call.
C8_PipelineOrdering == [](C8_State) /\ [][C8_Step]_vars

\* Witness of C8: the sink failed for the second of two requests that
\* both reached it.
C8_Witness ==
    /\ served = 2
    /\ pc = "done"
    /\ resp = Response(500, "Failed to process traces")
    /\ Len(sink) = 2
    /\ sink[2].failed
    /\ sink[1].request = 1 /\ sink[2].request = 2

====
